---- MODULE Spec2Model ----
(***************************************************************************)
(* Windowed phase cross-correlation of two rasters                         *)
(* (S2PhaseCrossCorrelation/OPCC/OptimizedPhaseCrossCorrelation.pyx).      *)
(*                                                                         *)
(*   find_shift               the per-window shift estimator               *)
(*   phase_cross_correlation  the sliding-window sweep                     *)
(*                                                                         *)
(* find_shift has no sub-pixel branch in this file and the sweep calls it  *)
(* without upsample_factor: every shift is an integer pair.                *)
(*                                                                         *)
(* Conventions of the model                                                *)
(*   - a 2-D array is a record [h, w, a]: h rows, w columns, and a the     *)
(*     function from <<row, col>> (0-based) to the sample.                 *)
(*   - the FFT pipeline fftn / conj / ifftn is modelled by what it         *)
(*     computes, the circular cross-correlation                            *)
(*        cc[k] = SUM_m reference[(m + k) mod shape] * moving[m],          *)
(*     in exact integer arithmetic (ifftn's factor 1/(N*M) is positive     *)
(*     and does not move the argmax; floating-point round-off is not       *)
(*     modelled).                                                          *)
(*   - an output cell holds a double v.  sqrt of a non-square is not an    *)
(*     integer, so a cell stores Sq(v) = sign(v) * v * v, an order-        *)
(*     preserving bijection of the reals: the magnitude sqrt(n) is stored  *)
(*     as n, the sentinel -9999.0 as -(9999 * 9999).                       *)
(***************************************************************************)
EXTENDS Integers, Sequences, FiniteSets, TLC

VARIABLES
    pc,               \* position in the modelled call
    reference_arr,    \* argument: reference raster
    moving_arr,       \* argument: moving raster
    window_size,      \* argument
    window_step,      \* argument
    no_data,          \* argument
    x_max, y_max,     \* locals of lines 67-68
    total_shift,      \* the output raster (Unallocated before line 72)
    x_arrange,        \* row centres (line 77)
    y_arrange,        \* column centres (line 78)
    xi, yi,           \* positions of the two for-loops in x_arrange, y_arrange
    reference_window, \* local of line 94 / argument of find_shift
    moving_window,    \* local of line 95 / argument of find_shift
    offset_pixels,    \* what find_shift returned (line 96)
    writes,           \* history: how often each output cell was assigned
    history           \* history: the windows processed so far, in order

vars == <<pc, reference_arr, moving_arr, window_size, window_step, no_data,
          x_max, y_max, total_shift, x_arrange, y_arrange, xi, yi,
          reference_window, moving_window, offset_pixels, writes, history>>

(***************************************************************************)
(* Bounds of the model.                                                    *)
(***************************************************************************)
MaxDim == 4        \* find_shift inputs: windows of at most MaxDim rows and columns
MaxCells == 9      \*   and of at most MaxCells cells
MaxFreeCells == 4  \* windows of at most this many cells: signed samples, and
                   \*   every moving window of the shape is tried
MaxRows == 4       \* sweep: rasters of at most MaxRows x MaxCols
MaxCols == 4
MaxWin == 4        \* sweep: window_size in 1..MaxWin
MaxStep == 3       \* sweep: window_step in 1..MaxStep
SignedSamples == {-1, 0, 1}   \* sample values of a small find_shift input
BinarySamples == {0, 1}       \* sample values of a larger one

None == <<>>                   \* a local not assigned yet
Unallocated == <<>>            \* total_shift before line 72
NoWindow == [h |-> -1, w |-> -1, a |-> <<>>]   \* a window local not assigned yet
ValueError == <<"ValueError">> \* raised by scipy.fft.fftn on an empty window,
                               \*   or by numpy when shapes do not broadcast

(***************************************************************************)
(* Arrays.                                                                 *)
(***************************************************************************)
Cells(h, w) == (0 .. h - 1) \X (0 .. w - 1)

Array(h, w, f) == [h |-> h, w |-> w, a |-> f]

Shape(arr) == <<arr.h, arr.w>>

Min(a, b) == IF a < b THEN a ELSE b
Max(a, b) == IF a > b THEN a ELSE b
Abs(v) == IF v < 0 THEN -v ELSE v

\* Sq(v) = sign(v) * v^2: how a double is stored in an output cell of the model.
Sq(v) == IF v < 0 THEN -(v * v) ELSE v * v

(***************************************************************************)
(* find_shift (lines 33-60).                                               *)
(***************************************************************************)
\* np.unravel_index(idx, (cc_x, cc_y)), line 50
Unravel(idx, cc_y) == <<idx \div cc_y, idx % cc_y>>

\* One term after the other of cc[k] = SUM_m ref[(m + k) mod shape] * mov[m]:
\* ifftn(fftn(ref) * conj(fftn(mov))), lines 37-40.
RECURSIVE CorrSum(_, _, _, _)
CorrSum(ref, mov, k, n) ==
    IF n = 0 THEN 0
    ELSE LET m == Unravel(n - 1, ref.w)
         IN  ref.a[<<(m[1] + k[1]) % ref.h, (m[2] + k[2]) % ref.w>>] * mov.a[m]
             + CorrSum(ref, mov, k, n - 1)

\* The flat (row-major) cross-correlation surface cc[0 .. n - 1], as a
\* sequence: element i + 1 is cc[np.unravel_index(i, shape)].
RECURSIVE Surface(_, _, _)
Surface(ref, mov, n) ==
    IF n = 0 THEN <<>>
    ELSE Append(Surface(ref, mov, n - 1),
                CorrSum(ref, mov, Unravel(n - 1, ref.w), ref.h * ref.w))

\* A faulty variant of CrossCorrelation: conj() on the wrong factor, which
\* mirrors the correlation surface.
CrossCorrelationConjSrc(ref, mov) == Surface(mov, ref, ref.h * ref.w)

\* cross_correlation, lines 37-40 (exact, unnormalised), flattened row-major
CrossCorrelation(ref, mov) == Surface(ref, mov, ref.h * ref.w)

\* A faulty variant of ArgMax: the last maximum in row-major order, not the first.
ArgMaxLast(cc) ==
    (CHOOSE i \in 1 .. Len(cc) :
        \A j \in 1 .. Len(cc) :
            /\ Abs(cc[j]) <= Abs(cc[i])
            /\ j > i => Abs(cc[j]) < Abs(cc[i])) - 1

\* np.argmax(np.abs(cross_correlation)), line 50: the flat (row-major) index
\* of the first maximum.
ArgMax(cc) ==
    (CHOOSE i \in 1 .. Len(cc) :
        \A j \in 1 .. Len(cc) :
            /\ Abs(cc[j]) <= Abs(cc[i])
            /\ j < i => Abs(cc[j]) < Abs(cc[i])) - 1

\* np.fix(axis_size / 2), line 51
Midpoint(axis_size) == axis_size \div 2

\* A faulty variant of WrapShift: >= where the source has >.
WrapShiftGeq(s, axis_size) ==
    IF s >= Midpoint(axis_size) THEN s - axis_size ELSE s

\* shifts[shifts > midpoints] -= shape[shifts > midpoints], line 54
WrapShift(s, axis_size) ==
    IF s > Midpoint(axis_size) THEN s - axis_size ELSE s

\* lines 56-58: an axis of size 1 carries no shift
DegenerateAxis(s, axis_size) == IF axis_size = 1 THEN 0 ELSE s

\* find_shift: the two-component shift, or ValueError.  fftn raises on an
\* empty window.  The product of line 39 raises on shapes that do not
\* broadcast; no specification below passes unequal shapes (the sweep takes
\* both slices with the same bounds from rasters the assertion found
\* equal-shaped), so the broadcasting of a one-row or one-column window
\* against a larger one is not modelled.
FindShift(ref, mov) ==
    IF ref.h = 0 \/ ref.w = 0 \/ mov.h = 0 \/ mov.w = 0 THEN ValueError
    ELSE IF Shape(ref) # Shape(mov) THEN ValueError
    ELSE LET cross_correlation == CrossCorrelation(ref, mov)
             maxima == Unravel(ArgMax(cross_correlation), ref.w)
         IN  <<DegenerateAxis(WrapShift(maxima[1], ref.h), ref.h),
               DegenerateAxis(WrapShift(maxima[2], ref.w), ref.w)>>

(***************************************************************************)
(* The specification of find_shift alone: every input window pair of the   *)
(* bounds, one call.                                                       *)
(***************************************************************************)
\* np.roll(arr, (r, c)): the sample at <<i, j>> moves to <<i + r, j + c>>.
Roll(arr, r, c) ==
    Array(arr.h, arr.w,
          [p \in Cells(arr.h, arr.w) |->
              arr.a[<<(p[1] - r) % arr.h, (p[2] - c) % arr.w>>]])

SamplesFor(h, w) == IF h * w <= MaxFreeCells THEN SignedSamples ELSE BinarySamples

WindowsOfShape(h, w) == {Array(h, w, f) : f \in [Cells(h, w) -> SamplesFor(h, w)]}

WindowShapes == {s \in (1 .. MaxDim) \X (1 .. MaxDim) : s[1] * s[2] <= MaxCells}

\* The moving windows tried against a reference window: every circular
\* shift of it, and, for a small window, every window of its shape.
MovingWindowsFor(ref) ==
    {Roll(ref, r, c) : r \in 0 .. ref.h - 1, c \in 0 .. ref.w - 1}
    \cup (IF ref.h * ref.w <= MaxFreeCells THEN WindowsOfShape(ref.h, ref.w) ELSE {})

InitShift ==
    /\ pc = "find_shift"
    /\ \E s \in WindowShapes :
         /\ reference_window \in WindowsOfShape(s[1], s[2])
         /\ moving_window \in MovingWindowsFor(reference_window)
    /\ offset_pixels = None
    /\ reference_arr = NoWindow /\ moving_arr = NoWindow
    /\ window_size = 0 /\ window_step = 0 /\ no_data = 0
    /\ x_max = 0 /\ y_max = 0
    /\ total_shift = Unallocated
    /\ x_arrange = <<>> /\ y_arrange = <<>>
    /\ xi = 0 /\ yi = 0
    /\ writes = None /\ history = <<>>

\* One call of find_shift (lines 33-60).
FindShiftCall ==
    /\ pc = "find_shift"
    /\ offset_pixels' = FindShift(reference_window, moving_window)
    /\ pc' = "returned"
    /\ UNCHANGED <<reference_arr, moving_arr, window_size, window_step, no_data,
                   x_max, y_max, total_shift, x_arrange, y_arrange, xi, yi,
                   reference_window, moving_window, writes, history>>

NextShift == FindShiftCall

SpecShift == InitShift /\ [][NextShift]_vars

(***************************************************************************)
(* phase_cross_correlation (lines 64-103).                                 *)
(***************************************************************************)
Int16Min == -32768
Int16Span == 65536

\* A value stored into an np.int16 element: two's-complement wrap-around.
Int16(v) == ((v - Int16Min) % Int16Span) + Int16Min

\* A faulty variant of WindowStart: the half rounded up.
WindowStartCeil(size) == (size + 1) \div 2

\* cdef int window_start = window_size / 2, line 75
WindowStart(size) == size \div 2

\* np.arange's length, ceil((stop - start) / step), computed before any
\* element is stored.
ArangeLen(start, stop, step) ==
    IF stop > start THEN (stop - start + step - 1) \div step ELSE 0

\* np.arange(start, stop, step, dtype=np.int16).astype('int'), lines 77-78:
\* element i is start + i * step stored as int16, then widened unchanged.
\* (start and start + step themselves fit int16 for every input of the
\* model.)
Arange(start, stop, step) ==
    [i \in 1 .. ArangeLen(start, stop, step) |-> Int16(start + (i - 1) * step)]

\* A faulty variant of SliceStop: the stop clamped one short of the axis length.
SliceStopShort(stop, n) ==
    IF stop < 0 THEN Max(stop + n, 0) ELSE Min(stop, n - 1)

\* A slice's start on an axis of length n, as the memoryview slicing of
\* lines 94-95 and 100 resolves it: a negative start counts from the end,
\* and the result is clamped to 0 .. n.
SliceStart(start, n) ==
    IF start < 0 THEN Max(start + n, 0) ELSE Min(start, n)

\* A slice's stop, resolved the same way.
SliceStop(stop, n) ==
    IF stop < 0 THEN Max(stop + n, 0) ELSE Min(stop, n)

\* The index range start:stop selects on an axis of length n: <<lo, hi>>,
\* the indices lo .. hi - 1 (none when hi <= lo).
SliceRange(start, stop, n) ==
    LET lo == SliceStart(start, n)
        hi == SliceStop(stop, n)
    IN  <<lo, Max(hi, lo)>>

\* arr[row_start:row_end, col_start:col_end], lines 94-95
Slice(arr, row_start, row_end, col_start, col_end) ==
    LET rr == SliceRange(row_start, row_end, arr.h)
        cr == SliceRange(col_start, col_end, arr.w)
    IN  Array(rr[2] - rr[1], cr[2] - cr[1],
              [p \in Cells(rr[2] - rr[1], cr[2] - cr[1]) |->
                  arr.a[<<rr[1] + p[1], cr[1] + p[2]>>]])

\* The bounds of the window centred at <<x, y>>, lines 89-92
WindowBounds(x, y, size) ==
    [row_start |-> x - WindowStart(size), row_end |-> x + WindowStart(size),
     col_start |-> y - WindowStart(size), col_end |-> y + WindowStart(size)]

\* The cells total_shift_view[row_start:row_end, col_start:col_end] names
\* (line 100) in a raster of h rows and w columns.
Footprint(b, h, w) ==
    LET rr == SliceRange(b.row_start, b.row_end, h)
        cr == SliceRange(b.col_start, b.col_end, w)
    IN  (rr[1] .. rr[2] - 1) \X (cr[1] .. cr[2] - 1)

\* sqrt(1. * offset_y * offset_y + offset_x * offset_x), lines 98-101, as a
\* cell stores it: Sq(sqrt(n)) = n.
Magnitude(offset) == offset[2] * offset[2] + offset[1] * offset[1]

\* A faulty variant of ScatterWrite: a cell already written keeps its value.
ScatterWriteOnce(out, cells, value) ==
    [p \in DOMAIN out |->
        IF p \in cells /\ out[p] = Sq(no_data) THEN value ELSE out[p]]

\* total_shift_view[row_start:row_end, col_start:col_end] = value,
\* lines 100-101: every cell of the footprint is assigned the scalar.
ScatterWrite(out, cells, value) ==
    [p \in DOMAIN out |-> IF p \in cells THEN value ELSE out[p]]

\* A faulty variant of ShapesAgree: the assertion commented out.
ShapesUnchecked(ref, mov) == TRUE

\* assert tuple(reference_arr.shape) == tuple(moving_arr.shape), line 70
ShapesAgree(ref, mov) == Shape(ref) = Shape(mov)

(***************************************************************************)
(* The sweep's inputs.                                                     *)
(***************************************************************************)
NoDataDefault == -9999

ZeroRaster(h, w) == Array(h, w, [p \in Cells(h, w) |-> 0])

\* The reference rasters of h x w: every signed raster when it is small,
\* else the rasters that are zero but for at most one sample of 1.
ReferenceRasters(h, w) ==
    IF h * w <= MaxFreeCells THEN WindowsOfShape(h, w)
    ELSE {ZeroRaster(h, w)} \cup
         {Array(h, w, [p \in Cells(h, w) |-> IF p = q THEN 1 ELSE 0]) : q \in Cells(h, w)}

\* Shapes next to h x w, for a moving raster that does not match.
OtherShapes(h, w) ==
    {<<h + 1, w>>, <<h, w + 1>>} \cup
    (IF h > 1 THEN {<<h - 1, w>>} ELSE {}) \cup
    (IF w > 1 THEN {<<h, w - 1>>} ELSE {})

\* The moving rasters tried against a reference raster: the reference
\* itself, the reference displaced by one row and/or column, the zero raster,
\* and zero rasters of the neighbouring shapes.
MovingRastersFor(ref) ==
    {Roll(ref, r, c) : r \in {0, 1}, c \in {0, 1}}
    \cup {ZeroRaster(ref.h, ref.w)}
    \cup {ZeroRaster(s[1], s[2]) : s \in OtherShapes(ref.h, ref.w)}

Init ==
    /\ pc = "call"
    /\ \E h \in 1 .. MaxRows, w \in 1 .. MaxCols :
         /\ reference_arr \in ReferenceRasters(h, w)
         /\ moving_arr \in MovingRastersFor(reference_arr)
    /\ window_size \in 1 .. MaxWin
    /\ window_step \in 1 .. MaxStep
    /\ no_data = NoDataDefault
    /\ x_max = 0 /\ y_max = 0
    /\ total_shift = Unallocated
    /\ x_arrange = <<>> /\ y_arrange = <<>>
    /\ xi = 0 /\ yi = 0
    /\ reference_window = NoWindow /\ moving_window = NoWindow
    /\ offset_pixels = None
    /\ writes = None /\ history = <<>>

\* Lines 64-78: the shapes are read and asserted equal; then the output is
\* allocated and filled with no_data, and the centres are laid out.
Enter ==
    /\ pc = "call"
    /\ x_max' = reference_arr.h
    /\ y_max' = reference_arr.w
    /\ \/ /\ ~ShapesAgree(reference_arr, moving_arr)      \* AssertionError
          /\ pc' = "failed"
          /\ UNCHANGED <<total_shift, x_arrange, y_arrange, xi, yi, writes>>
       \/ /\ ShapesAgree(reference_arr, moving_arr)
          /\ total_shift' = [p \in Cells(reference_arr.h, reference_arr.w) |-> Sq(no_data)]
          /\ writes' = [p \in Cells(reference_arr.h, reference_arr.w) |-> 0]
          /\ x_arrange' = Arange(WindowStart(window_size), reference_arr.h, window_step)
          /\ y_arrange' = Arange(WindowStart(window_size), reference_arr.w, window_step)
          /\ xi' = 1 /\ yi' = 1
          /\ pc' = "sweep"
    /\ UNCHANGED <<reference_arr, moving_arr, window_size, window_step, no_data,
                   reference_window, moving_window, offset_pixels, history>>

\* The loop position after the body ran at <<i, j>>: the inner loop (line 87)
\* runs over y_arrange, the outer (line 86) over x_arrange.
Advance(i, j) == IF j < Len(y_arrange) THEN <<i, j + 1>> ELSE <<i + 1, 1>>

\* Lines 86-101, one pass of the loop body: the bounds, the two windows, the
\* call of find_shift and the write of the magnitude over the footprint.
\* find_shift raising ends the call: the exception is not caught.
Window ==
    /\ pc = "sweep"
    /\ xi <= Len(x_arrange) /\ yi <= Len(y_arrange)
    /\ LET b == WindowBounds(x_arrange[xi], y_arrange[yi], window_size)
           ref == Slice(reference_arr, b.row_start, b.row_end, b.col_start, b.col_end)
           mov == Slice(moving_arr, b.row_start, b.row_end, b.col_start, b.col_end)
           offset == FindShift(ref, mov)
           cells == Footprint(b, x_max, y_max)
           entry == [xi |-> xi, yi |-> yi, bounds |-> b,
                     ref_shape |-> Shape(ref), mov_shape |-> Shape(mov),
                     same |-> (ref = mov), offset |-> offset]
       IN  /\ reference_window' = ref
           /\ moving_window' = mov
           /\ offset_pixels' = offset
           /\ history' = Append(history, entry)
           /\ \/ /\ offset = ValueError
                 /\ pc' = "failed"
                 /\ UNCHANGED <<total_shift, writes, xi, yi>>
              \/ /\ offset # ValueError
                 /\ total_shift' = ScatterWrite(total_shift, cells, Magnitude(offset))
                 /\ writes' = [p \in DOMAIN writes |->
                                  IF p \in cells THEN writes[p] + 1 ELSE writes[p]]
                 /\ xi' = Advance(xi, yi)[1]
                 /\ yi' = Advance(xi, yi)[2]
                 /\ pc' = "sweep"
    /\ UNCHANGED <<reference_arr, moving_arr, window_size, window_step, no_data,
                   x_max, y_max, x_arrange, y_arrange>>

\* Line 103: both loops are exhausted and total_shift is returned.
Return ==
    /\ pc = "sweep"
    /\ xi > Len(x_arrange) \/ Len(y_arrange) = 0
    /\ pc' = "done"
    /\ UNCHANGED <<reference_arr, moving_arr, window_size, window_step, no_data,
                   x_max, y_max, total_shift, x_arrange, y_arrange, xi, yi,
                   reference_window, moving_window, offset_pixels, writes, history>>

Next == Enter \/ Window \/ Return

Spec == Init /\ [][Next]_vars

(***************************************************************************)
(* Properties of the sweep (specification Spec).                           *)
(***************************************************************************)
Allocated == total_shift # Unallocated

OutputCells == Cells(x_max, y_max)

Processed == 1 .. Len(history)

\* The window did not make find_shift raise, so its magnitude was written.
Written(e) == e.offset # ValueError

InBounds(b) ==
    /\ b.row_start >= 0 /\ b.row_end <= x_max
    /\ b.col_start >= 0 /\ b.col_end <= y_max

\* The part of the bounds b that lies inside the raster.
ClippedRows(b) == b.row_start .. Min(b.row_end, x_max) - 1
ClippedCols(b) == b.col_start .. Min(b.col_end, y_max) - 1

\* The processed windows whose write covered cell p.
Covering(p) ==
    {k \in Processed : Written(history[k])
                       /\ p \in Footprint(history[k].bounds, x_max, y_max)}

Last(S) == CHOOSE k \in S : \A j \in S : j <= k

StepEqualsSize == window_step = window_size

ExactMultiples == x_max % window_size = 0 /\ y_max % window_size = 0

EvenSize == window_size % 2 = 0

\* C1 as the spec states it, on rasters small enough to enumerate cell by
\* cell: with window_step = window_size and both raster dimensions multiples
\* of window_size, a returned sweep has written every output cell exactly
\* once and no cell holds the no-data sentinel.  (An odd window_size leaves
\* rows and columns unwritten: the windows are window_size - 1 wide.)
C1_Original ==
    (pc = "done" /\ StepEqualsSize /\ ExactMultiples) =>
        \A p \in OutputCells : writes[p] = 1 /\ total_shift[p] # Sq(no_data)

\* C1 for an even window_size, on the same small rasters (every centre fits
\* int16): with window_step = window_size and both raster dimensions
\* multiples of window_size, the sweep does not fail, and when it has
\* returned every output cell has been written exactly once and no cell holds
\* the no-data sentinel.
C1_SweepCoverage ==
    (Allocated /\ StepEqualsSize /\ ExactMultiples /\ EvenSize) =>
        /\ pc # "failed"
        /\ pc = "done" =>
              \A p \in OutputCells :
                  writes[p] = 1 /\ total_shift[p] # Sq(no_data)

C1_Witness ==
    /\ pc = "done" /\ StepEqualsSize /\ ExactMultiples /\ EvenSize
    /\ Len(history) >= 4

\* C2 as the spec states it (under the sweep's preconditions): a window
\* whose bounds exceed the raster is skipped, without a call of the estimator
\* and without a write, so a cell that only such windows cover holds the
\* no-data sentinel at the end.
C2_Original ==
    (Allocated /\ window_size <= Min(x_max, y_max)) =>
        /\ \A k \in Processed : InBounds(history[k].bounds)
        /\ pc = "done" =>
              \A p \in OutputCells :
                  (\A k \in Covering(p) : ~InBounds(history[k].bounds))
                      => total_shift[p] = Sq(no_data)

\* C2 (amended): a window whose bounds exceed the raster at the trailing
\* edge (row_end > H or col_end > W, row_start and col_start not negative)
\* is clipped, not skipped: find_shift is called on the part of the reference
\* and of the moving window inside the raster and returns a shift, and the
\* magnitude is written to exactly the cells of that part, so a cell such a
\* window covers has been written and does not hold the no-data sentinel when
\* the sweep returns.
C2_BoundaryClip ==
    Allocated =>
        \A k \in Processed :
            LET e == history[k]
            IN  (~InBounds(e.bounds) /\ e.bounds.row_start >= 0 /\ e.bounds.col_start >= 0) =>
                  /\ Written(e)
                  /\ e.ref_shape = <<Cardinality(ClippedRows(e.bounds)),
                                     Cardinality(ClippedCols(e.bounds))>>
                  /\ e.mov_shape = e.ref_shape
                  /\ Footprint(e.bounds, x_max, y_max)
                        = ClippedRows(e.bounds) \X ClippedCols(e.bounds)
                  /\ (k < Len(history) \/ pc \in {"sweep", "done"}) =>
                        \A p \in ClippedRows(e.bounds) \X ClippedCols(e.bounds) :
                            writes[p] >= 1 /\ total_shift[p] # Sq(no_data)

C2_Witness ==
    /\ pc = "done"
    /\ \E k \in Processed :
          /\ history[k].bounds.row_end > x_max
          /\ history[k].bounds.col_end > y_max
          /\ history[k].offset # <<0, 0>>

\* C4: a non-empty window whose moving part equals its reference part cell
\* for cell makes find_shift return (0, 0), and the sweep writes the
\* magnitude 0 over the window's footprint.
C4_ZeroShiftIdentity ==
    /\ \A k \in Processed :
          (history[k].same /\ history[k].ref_shape[1] > 0 /\ history[k].ref_shape[2] > 0)
              => history[k].offset = <<0, 0>>
    /\ (pc \in {"sweep", "done"} /\ history # <<>> /\ reference_window = moving_window) =>
          /\ offset_pixels = <<0, 0>>
          /\ \A p \in Footprint(history[Len(history)].bounds, x_max, y_max) :
                total_shift[p] = 0

C4_Witness ==
    /\ pc \in {"sweep", "done"} /\ history # <<>>
    /\ reference_window = moving_window
    /\ \E p, q \in DOMAIN reference_window.a :
          reference_window.a[p] = 1 /\ reference_window.a[q] = -1
    /\ offset_pixels = <<0, 0>>

C7_LastWriteWins ==
    Allocated =>
        /\ \A k \in Processed :
              /\ history[k].xi = (k - 1) \div Len(y_arrange) + 1
              /\ history[k].yi = ((k - 1) % Len(y_arrange)) + 1
              /\ history[k].bounds = WindowBounds(x_arrange[history[k].xi],
                                                  y_arrange[history[k].yi], window_size)
        /\ pc = "done" => Len(history) = Len(x_arrange) * Len(y_arrange)
        /\ \A p \in OutputCells :
              /\ writes[p] = Cardinality(Covering(p))
              /\ total_shift[p] = IF Covering(p) = {} THEN Sq(no_data)
                                  ELSE Magnitude(history[Last(Covering(p))].offset)

C7_Witness ==
    /\ pc = "done" /\ window_step < window_size
    /\ \E p \in OutputCells :
          \E j, k \in Covering(p) :
              /\ j < k /\ k = Last(Covering(p))
              /\ Magnitude(history[j].offset) # Magnitude(history[k].offset)
              /\ history[j].xi = history[k].xi

\* C9 as the spec states it: with 1 <= window_size <= min(H, W), every window
\* passed to find_shift has window_size rows and window_size columns.
C9_Original ==
    (Allocated /\ window_size <= Min(x_max, y_max)) =>
        \A k \in Processed :
            /\ history[k].ref_shape = <<window_size, window_size>>
            /\ history[k].mov_shape = <<window_size, window_size>>

\* C9 (amended): the reference and the moving window of a pass have the same
\* shape; the bounds of a window span 2 * (window_size div 2) rows and
\* columns, and a window whose row_start and col_start are not negative has
\* those rows and columns less the ones past the raster's trailing edge; so a
\* window is window_size x window_size whenever window_size is even and its
\* bounds lie inside the raster, and never when window_size is odd.
C9_WindowGeometry ==
    Allocated =>
        \A k \in Processed :
            LET e == history[k]
                side == 2 * (window_size \div 2)
            IN  /\ e.mov_shape = e.ref_shape
                /\ e.bounds.row_end - e.bounds.row_start = side
                /\ e.bounds.col_end - e.bounds.col_start = side
                /\ e.bounds.row_start >= 0 =>
                      e.ref_shape[1] = Min(side, x_max - e.bounds.row_start)
                /\ e.bounds.col_start >= 0 =>
                      e.ref_shape[2] = Min(side, y_max - e.bounds.col_start)
                /\ (EvenSize /\ InBounds(e.bounds)) =>
                      e.ref_shape = <<window_size, window_size>>
                /\ ~EvenSize => e.ref_shape # <<window_size, window_size>>

C9_Witness ==
    /\ pc = "done" /\ EvenSize /\ window_size <= Min(x_max, y_max)
    /\ \E j, k \in Processed :
          /\ InBounds(history[j].bounds)
          /\ history[j].ref_shape = <<window_size, window_size>>
          /\ ~InBounds(history[k].bounds)
          /\ history[k].ref_shape[1] < window_size

(***************************************************************************)
(* Properties of find_shift (specification SpecShift).                     *)
(***************************************************************************)
\* |r| < n / 2
WithinHalf(r, n) == 2 * Abs(r) < n

Negated(arr) == Array(arr.h, arr.w, [p \in Cells(arr.h, arr.w) |-> -arr.a[p]])

\* Some non-zero circular shift maps the window onto itself or onto its
\* negation: the magnitude of its autocorrelation then peaks more than once.
SelfSimilar(arr) ==
    \E r \in 0 .. arr.h - 1, c \in 0 .. arr.w - 1 :
        /\ <<r, c>> # <<0, 0>>
        /\ Roll(arr, r, c) \in {arr, Negated(arr)}

\* C3 as the spec states it: when the moving window is the reference
\* circularly shifted by (r, c), |r| < H/2 and |c| < W/2, find_shift returns
\* (r, c).
C3_Original ==
    pc = "returned" =>
        \A r \in -MaxDim .. MaxDim, c \in -MaxDim .. MaxDim :
            (/\ WithinHalf(r, reference_window.h)
             /\ WithinHalf(c, reference_window.w)
             /\ moving_window = Roll(reference_window, r, c))
                => offset_pixels = <<r, c>>

\* C3 (amended): when the moving window is the reference circularly shifted
\* by (r, c) (np.roll), |r| < H/2 and |c| < W/2, and no non-zero circular
\* shift maps the reference onto itself or its negation, find_shift returns
\* (-r, -c): the shift that moves the moving window back onto the reference.
C3_KnownShiftRecovery ==
    pc = "returned" =>
        \A r \in -MaxDim .. MaxDim, c \in -MaxDim .. MaxDim :
            (/\ WithinHalf(r, reference_window.h)
             /\ WithinHalf(c, reference_window.w)
             /\ moving_window = Roll(reference_window, r, c)
             /\ ~SelfSimilar(reference_window))
                => offset_pixels = <<-r, -c>>

C3_Witness ==
    /\ pc = "returned"
    /\ reference_window.h >= 3 /\ reference_window.w >= 3
    /\ ~SelfSimilar(reference_window)
    /\ moving_window = Roll(reference_window, 1, -1)
    /\ offset_pixels = <<-1, 1>>

\* C5 as the spec states it: each component of the returned shift lies in
\* [-N/2, N/2) for its axis size N.
C5_Original ==
    pc = "returned" =>
        /\ -reference_window.h <= 2 * offset_pixels[1]
        /\ 2 * offset_pixels[1] < reference_window.h
        /\ -reference_window.w <= 2 * offset_pixels[2]
        /\ 2 * offset_pixels[2] < reference_window.w

\* C5 (amended): each component of the returned shift lies in (-N/2, N/2]
\* for its axis size N: a raw peak index of exactly N/2 is kept, not wrapped.
C5_ShiftRange ==
    pc = "returned" =>
        /\ -reference_window.h < 2 * offset_pixels[1]
        /\ 2 * offset_pixels[1] <= reference_window.h
        /\ -reference_window.w < 2 * offset_pixels[2]
        /\ 2 * offset_pixels[2] <= reference_window.w

C5_Witness ==
    /\ pc = "returned"
    /\ reference_window.h = 4 /\ offset_pixels[1] = 2
    /\ reference_window.w = 2 /\ offset_pixels[2] = 1

(***************************************************************************)
(* The sweep's index arithmetic alone, on rasters too large to enumerate   *)
(* cell by cell (specification SpecCenters): the layout of the centres     *)
(* (lines 75-78), and per pass of the loop the window's bounds (lines      *)
(* 89-92) and the index ranges its slices select (lines 94-95, 100).  No   *)
(* sample is read: find_shift is not modelled here.                        *)
(***************************************************************************)
Int16Max == 32767
BigUnit == 8192    \* large rasters, sizes and steps are multiples of BigUnit
MaxUnits == 9      \* x_max is at most MaxUnits * BigUnit + 2
MaxUnitsAcross == 2 \* y_max is at most MaxUnitsAcross * BigUnit + 2
MaxSizeUnits == 2  \* window_size is at most MaxSizeUnits * BigUnit
MaxStepUnits == 3  \* window_step is at most MaxStepUnits * BigUnit

\* np.arange stores start and start + step into int16 elements before it
\* fills the rest; the inputs of the model keep both within int16, where
\* every numpy version stores them unchanged.
FirstTwoFit(size, step) == WindowStart(size) + step <= Int16Max

InitCenters ==
    /\ pc = "layout"
    /\ \E k \in 1 .. MaxUnits, d \in {0, 1, 2} : x_max = k * BigUnit + d
    /\ \E k \in 1 .. MaxUnitsAcross, d \in {0, 1, 2} : y_max = k * BigUnit + d
    /\ \E k \in 1 .. MaxSizeUnits : window_size = k * BigUnit
    /\ \E k \in 1 .. MaxStepUnits : window_step = k * BigUnit
    /\ FirstTwoFit(window_size, window_step)
    /\ no_data = NoDataDefault
    /\ reference_arr = NoWindow /\ moving_arr = NoWindow
    /\ total_shift = Unallocated
    /\ x_arrange = <<>> /\ y_arrange = <<>>
    /\ xi = 0 /\ yi = 0
    /\ reference_window = NoWindow /\ moving_window = NoWindow
    /\ offset_pixels = None
    /\ writes = None /\ history = <<>>

\* Lines 75-78: the centres of both axes.
Layout ==
    /\ pc = "layout"
    /\ x_arrange' = Arange(WindowStart(window_size), x_max, window_step)
    /\ y_arrange' = Arange(WindowStart(window_size), y_max, window_step)
    /\ xi' = 1 /\ yi' = 1
    /\ pc' = "bounds"
    /\ UNCHANGED <<reference_arr, moving_arr, window_size, window_step, no_data,
                   x_max, y_max, total_shift, reference_window, moving_window,
                   offset_pixels, writes, history>>

\* Lines 86-92, 94 and 100 of one pass: the bounds of the window and the row
\* and column ranges its slices select.
Bounds ==
    /\ pc = "bounds"
    /\ xi <= Len(x_arrange) /\ yi <= Len(y_arrange)
    /\ LET b == WindowBounds(x_arrange[xi], y_arrange[yi], window_size)
       IN  history' = Append(history,
                [xi |-> xi, yi |-> yi, bounds |-> b,
                 rows |-> SliceRange(b.row_start, b.row_end, x_max),
                 cols |-> SliceRange(b.col_start, b.col_end, y_max)])
    /\ xi' = Advance(xi, yi)[1]
    /\ yi' = Advance(xi, yi)[2]
    /\ UNCHANGED <<pc, reference_arr, moving_arr, window_size, window_step, no_data,
                   x_max, y_max, total_shift, x_arrange, y_arrange,
                   reference_window, moving_window, offset_pixels, writes>>

\* Both loops are exhausted.
Exhausted ==
    /\ pc = "bounds"
    /\ xi > Len(x_arrange) \/ Len(y_arrange) = 0
    /\ pc' = "laid"
    /\ UNCHANGED <<reference_arr, moving_arr, window_size, window_step, no_data,
                   x_max, y_max, total_shift, x_arrange, y_arrange, xi, yi,
                   reference_window, moving_window, offset_pixels, writes, history>>

NextCenters == Layout \/ Bounds \/ Exhausted

SpecCenters == InitCenters /\ [][NextCenters]_vars

\* The centres of an axis of length n are exactly start, start + step, ...,
\* every term below n: none missing, none extra, each in start .. n - 1.
ExactCentres(centres, start, n, step) ==
    /\ \A i \in 1 .. Len(centres) :
          centres[i] = start + (i - 1) * step /\ centres[i] < n
    /\ start + Len(centres) * step >= n
    /\ Len(centres) = 0 => start >= n

\* C10: for every raster height and width, the row and column centres are
\* exactly half, half + window_step, half + 2 * window_step, ... for every
\* term strictly below the axis length, half = window_size div 2.
C10_CenterSequence ==
    pc # "layout" =>
        /\ ExactCentres(x_arrange, window_size \div 2, x_max, window_step)
        /\ ExactCentres(y_arrange, window_size \div 2, y_max, window_step)

\* The index i lies in the range <<lo, hi>>.
InRange(i, a) == a[1] <= i /\ i < a[2]

\* The first row (column) of every window_size-wide tile of an axis of
\* length n.
TileStarts(n) == {k * window_size : k \in 0 .. n \div window_size - 1}

\* C1 on large rasters: with window_step = window_size and both raster
\* dimensions multiples of window_size, when the loops are exhausted every
\* output cell lies in the footprint of exactly one window, so that it is
\* written exactly once; stated of the first cell of every tile.
C1_LargeRasterCoverage ==
    (pc = "laid" /\ StepEqualsSize /\ ExactMultiples) =>
        \A r \in TileStarts(x_max), c \in TileStarts(y_max) :
            Cardinality({k \in Processed : /\ InRange(r, history[k].rows)
                                          /\ InRange(c, history[k].cols)}) = 1

\* Two index ranges <<lo, hi>> share no index.
RangesDisjoint(a, b) == a[2] <= a[1] \/ b[2] <= b[1] \/ a[2] <= b[1] \/ b[2] <= a[1]

\* C8: with window_step >= window_size, the footprints of two distinct
\* windows of a sweep share no output cell (so the order of the windows'
\* writes cannot matter).
C8_DisjointFootprints ==
    window_step >= window_size =>
        \A j, k \in Processed :
            j # k => \/ RangesDisjoint(history[j].rows, history[k].rows)
                     \/ RangesDisjoint(history[j].cols, history[k].cols)

====
